---- MODULE Spec2Model ----
(***************************************************************************)
(* Model of src/main.py: the LINE webhook endpoint `callback`, the text    *)
(* message handler `handle_message` and the in-memory dictionary           *)
(* `user_sessions`.                                                        *)
(*                                                                         *)
(* Worker threads of the web server run `callback` concurrently.  Each     *)
(* thread walks through the statements of callback / handle_message; a     *)
(* step of the model is one statement that reads or writes shared state    *)
(* (user_sessions, the wall clock) or talks to an external service (the    *)
(* Gemini API, the LINE reply API).                                        *)
(***************************************************************************)
EXTENDS Integers, Sequences, FiniteSets, TLC

(***************************************************************************)
(* Bounds of the model.                                                    *)
(***************************************************************************)
MaxDay == 2            \* the wall clock runs over the dates 1..MaxDay
MaxEvents == 3         \* reply tokens (message events) issued in one run
MaxEventsPerBody == 2  \* events carried by one webhook body
MaxSeedTurns == 8      \* turns of the longest session a window run starts with

Users == {"u1", "u2"}
Threads == {"t1", "t2"}
Days == 1..MaxDay
Tokens == 1..MaxEvents

(***************************************************************************)
(* Program constants.                                                      *)
(***************************************************************************)
MAX_GEMINI_REQUESTS_PER_DAY == 20
MAX_CONTEXT_TURNS == 6

CHANNEL_SECRET == "secret"
COUNSELING_SYSTEM_PROMPT == <<"COUNSELING_SYSTEM_PROMPT">>
PRIMING_ACK == <<"PRIMING_ACK">>
INITIAL_MESSAGE == <<"INITIAL_MESSAGE">>
GEMINI_LIMIT_MESSAGE == <<"GEMINI_LIMIT_MESSAGE">>
DEFAULT_RESPONSE_TEXT == <<"DEFAULT_RESPONSE_TEXT">>
UNEXPECTED_FORMAT_TEXT == <<"UNEXPECTED_FORMAT_TEXT">>
GEMINI_ERROR_TEXT == <<"GEMINI_ERROR_TEXT">>

VARIABLES
  today,          \* datetime.date.today(): the wall clock's date
  user_sessions,  \* the dict user_sessions: a function whose domain is its keys
  nextToken,      \* the next reply token the platform issues
  pc,             \* per thread: the statement it is about to execute
  req,            \* per thread: the webhook request (signature header, body)
  idx,            \* per thread: index in the body of the event being dispatched
  resp,           \* per thread: HTTP status of the last request (0: none yet)
  sdk_called,     \* per thread: handler.handle was invoked for the request
  loc,            \* per thread: the local variables of handle_message
  replies,        \* per reply token: the reply_message calls made with it
  gemini_calls,   \* per reply token: the Gemini calls made for the event
  resets,         \* per user: the dates for which an existing session was reset
  turns,          \* per user: Gemini calls that returned since the last (re)initialisation
  seed,           \* per user: request_count of the session the run started with
  pre             \* per thread: the user's session as handle_message found it
                  \* (recorded only when requests are served one after another)

vars == <<today, user_sessions, nextToken, pc, req, idx, resp, sdk_called, loc,
          replies, gemini_calls, resets, turns, seed, pre>>

Max(a, b) == IF a >= b THEN a ELSE b

(***************************************************************************)
(* Webhook signature: base64(HMAC-SHA256(secret, body)).  The MAC is       *)
(* modelled as an ideal keyed hash: two digests agree exactly when key and *)
(* body agree.  An absent header is the empty tuple.                       *)
(***************************************************************************)
HmacSha256(secret, body) == <<"hmac", secret, body>>
B64Encode(digest) == <<"b64", digest>>
CalculatedSignature(body) == B64Encode(HmacSha256(CHANNEL_SECRET, body))
NoHeader == <<>>

Signatures(body) ==
  { NoHeader,                                   \* header absent
    CalculatedSignature(body),                  \* signed by the platform
    B64Encode(HmacSha256("forged", body)),      \* signed with another key
    CalculatedSignature(<<>>) }                 \* signature of another body

(* callback, lines 140-142: `if not signature: abort(400)`. *)
HeaderMissing(signature) == signature = NoHeader

(* callback, lines 149-165: what the body of the debug try block raises.   *)
(* abort(400) raises werkzeug's HTTPException, a subclass of Exception.    *)
ManualSignatureCheck(body, signature) ==
  IF CalculatedSignature(body) # signature THEN "HTTPException" ELSE "none"

(* callback, lines 167-170: `except Exception as e: ... pass` catches      *)
(* whatever the try block raised, the HTTPException of abort(400) too, so  *)
(* the request always goes on to the SDK handler.                          *)
CaughtByExceptException(raised) == raised \in {"HTTPException", "Exception"}

ManualCheckAborts(body, signature) ==
  /\ ManualSignatureCheck(body, signature) # "none"
  /\ ~CaughtByExceptException(ManualSignatureCheck(body, signature))

(* handler.handle(body, signature), line 174: the WebhookHandler of        *)
(* linebot.v3.webhook (line 10) validates the signature against the        *)
(* channel secret before it parses or dispatches any event.                *)
SdkSignatureValid(body, signature) == CalculatedSignature(body) = signature

(* What handler.handle raises at the signature check: the v3 handler       *)
(* raises the InvalidSignatureError of linebot.v3.exceptions.               *)
SdkRaises(body, signature) ==
  IF SdkSignatureValid(body, signature) THEN "none"
  ELSE "linebot.v3.exceptions.InvalidSignatureError"

(* Line 176, `except InvalidSignatureError`: the name is bound by line 17  *)
(* to the class of linebot.exceptions, a class other than the one the v3   *)
(* handler raises.                                                         *)
CaughtByExceptInvalidSignatureError(raised) ==
  raised = "linebot.exceptions.InvalidSignatureError"

(***************************************************************************)
(* Sessions.                                                               *)
(***************************************************************************)
(* Mutant: a fresh session that already counts one request. *)
NewSession_CountOne(date) ==
  [history |-> <<>>, request_count |-> 1, last_request_date |-> date]

NewSession(date) ==
  [history |-> <<>>, request_count |-> 0, last_request_date |-> date]

(* Mutant: only a missing entry initialises the session; the date is not  *)
(* compared.                                                               *)
NeedsReset_NewUserOnly(sessions, user_id, current_date) ==
  user_id \notin DOMAIN sessions

(* handle_message, line 204. *)
NeedsReset(sessions, user_id, current_date) ==
  \/ user_id \notin DOMAIN sessions
  \/ sessions[user_id].last_request_date # current_date

(* Mutant: the comparison is strict. *)
QuotaExceeded_Strict(session) ==
  session.request_count > MAX_GEMINI_REQUESTS_PER_DAY

(* handle_message, line 230. *)
QuotaExceeded(session) == session.request_count >= MAX_GEMINI_REQUESTS_PER_DAY

(* handle_message, lines 248-249. *)
PrimingPair ==
  << <<"user", COUNSELING_SYSTEM_PROMPT>>, <<"model", PRIMING_ACK>> >>

(* Mutant: the whole history is handed over. *)
StartIndex_Zero(history) == 0

(* Mutant: the window is counted in entries, not in pairs of entries. *)
StartIndex_Entries(history) == Max(0, Len(history) - MAX_CONTEXT_TURNS)

(* handle_message, line 251. *)
StartIndex(history) == Max(0, Len(history) - MAX_CONTEXT_TURNS * 2)

(* Mutant: the slice keeps the oldest entries instead of the newest. *)
ChatHistory_Oldest(history, start_index) ==
  PrimingPair \o SubSeq(history, 1, Len(history) - start_index)

(* handle_message, lines 248-256: history[start_index:] after the priming pair. *)
ChatHistory(history, start_index) ==
  PrimingPair \o SubSeq(history, start_index + 1, Len(history))

(* Texts.  The k-th message event of a run carries a text of its own, and   *)
(* the Gemini service answers a message with a text that names it.  The    *)
(* i-th message answered before the run has a text of its own as well.     *)
MessageText(k) == <<"M", k>>
Answer(message) == <<"A", message[2]>>
SeedText(i) == <<"M", 0 - i>>

GeminiKinds == {"text", "list", "none", "raise"}

(* handle_message, lines 268-274: the text taken from a returned response. *)
ResponseText(response) ==
  IF response.kind = "text" THEN response.text
  ELSE IF response.kind = "list" THEN response.text
  ELSE UNEXPECTED_FORMAT_TEXT

(* Mutant: the turn is recorded although the call raised. *)
TurnRecorded_Always(kind) == TRUE

(* handle_message, lines 260-296: lines 278-285 record the turn unless the  *)
(* call has raised; the except clause then replaces the response text.     *)
TurnRecorded(kind) == kind # "raise"

(* Mutant: the stored history is cut to the context window when written. *)
AppendUser_Windowed(session, user_message) ==
  [session EXCEPT !.history =
     LET h == Append(@, <<"user", user_message>>)
     IN SubSeq(h, Max(0, Len(h) - MAX_CONTEXT_TURNS * 2) + 1, Len(h))]

(* handle_message, lines 279-280. *)
AppendUser(session, user_message) ==
  [session EXCEPT !.history = Append(@, <<"user", user_message>>)]

AppendModel(session, response_text) ==
  [session EXCEPT !.history = Append(@, <<"model", response_text>>)]

(* Mutant: the call is made a second time with the same token. *)
ReplyMessage_Retried(sent, reply_token, text) ==
  [sent EXCEPT ![reply_token] = Append(Append(@, text), text)]

(* line_bot_api.reply_message: one call with the event's reply token; the  *)
(* call either succeeds or raises, and the except clause only logs.        *)
ReplyMessage(sent, reply_token, text) ==
  [sent EXCEPT ![reply_token] = Append(@, text)]

(* What a reply_message call raises: nothing, or the client's exception. *)
ReplyRaises(ok) == IF ok THEN "none" ELSE "Exception"

(* Mutant: the except clause around reply_message raises the error again. *)
ReplyErrorCaught_Reraised(raised) == FALSE

(* Lines 224-225, 242-243, 308-309: `except Exception as e: logging.error`  *)
(* around every reply_message call; the error is logged and dropped.       *)
ReplyErrorCaught(raised) == raised = "Exception"

(* Mutant: the assignment builds a dict that holds this user only. *)
Store_Alone(sessions, user_id, session) == [u \in {user_id} |-> session]

(* dict assignment user_sessions[user_id] = session. *)
Store(sessions, user_id, session) ==
  [u \in DOMAIN sessions \cup {user_id} |->
     IF u = user_id THEN session ELSE sessions[u]]

(***************************************************************************)
(* Initial states: the process has run for a while on day 1; a user either *)
(* has no session or has the session left by n answered messages.          *)
(***************************************************************************)
SeedTurns == {18}

RECURSIVE SeedHistory(_)
SeedHistory(n) ==
  IF n = 0 THEN <<>>
  ELSE SeedHistory(n - 1) \o
         << <<"user", SeedText(n)>>, <<"model", Answer(SeedText(n))>> >>

SeedSession(n) ==
  [history |-> SeedHistory(n), request_count |-> n, last_request_date |-> 1]

NoText == <<>>
NoEvent == [user |-> "", text |-> NoText, reply_token |-> 0]
NoRequest == [signature |-> NoHeader, body |-> <<>>]

IdleLoc ==
  [event |-> NoEvent, current_date |-> 0, start_index |-> 0,
   chat_history |-> <<>>, response_text |-> NoText,
   count_read |-> 0, attached |-> TRUE, reply_ok |-> TRUE]

Init ==
  /\ today = 1
  /\ \E D \in SUBSET Users : \E c \in [D -> SeedTurns] :
       /\ user_sessions = [u \in D |-> SeedSession(c[u])]
       /\ seed = [u \in Users |-> IF u \in D THEN c[u] ELSE 0]
  /\ turns = seed
  /\ nextToken = 1
  /\ pc = [t \in Threads |-> "idle"]
  /\ req = [t \in Threads |-> NoRequest]
  /\ idx = [t \in Threads |-> 0]
  /\ resp = [t \in Threads |-> 0]
  /\ sdk_called = [t \in Threads |-> FALSE]
  /\ loc = [t \in Threads |-> IdleLoc]
  /\ replies = [k \in Tokens |-> <<>>]
  /\ gemini_calls = [k \in Tokens |-> <<>>]
  /\ resets = [u \in Users |-> {}]
  /\ pre = [t \in Threads |-> <<>>]

(***************************************************************************)
(* callback                                                                *)
(***************************************************************************)
User(t) == loc[t].event.user

(* A webhook request arrives and the server starts a thread for it (lines  *)
(* 136-138).  The platform puts a fresh reply token into every event of    *)
(* the body.                                                               *)
Receive(t) ==
  /\ pc[t] = "idle"
  /\ \E n \in 1..MaxEventsPerBody :
       /\ nextToken + n - 1 <= MaxEvents
       /\ \E us \in [1..n -> Users] :
            LET body == [i \in 1..n |->
                           [user |-> us[i], text |-> MessageText(nextToken + i - 1),
                            reply_token |-> nextToken + i - 1]]
            IN \E sig \in Signatures(body) :
                 req' = [req EXCEPT ![t] = [signature |-> sig, body |-> body]]
       /\ nextToken' = nextToken + n
  /\ pc' = [pc EXCEPT ![t] = "cb_header"]
  /\ UNCHANGED <<today, user_sessions, idx, resp, sdk_called, loc,
                 replies, gemini_calls, resets, turns, seed, pre>>

(* Lines 140-142. *)
CheckHeader(t) ==
  /\ pc[t] = "cb_header"
  /\ IF HeaderMissing(req[t].signature)
       THEN /\ resp' = [resp EXCEPT ![t] = 400]
            /\ pc' = [pc EXCEPT ![t] = "cb_done"]
       ELSE /\ pc' = [pc EXCEPT ![t] = "cb_manual"]
            /\ UNCHANGED resp
  /\ UNCHANGED <<today, user_sessions, nextToken, req, idx, sdk_called, loc,
                 replies, gemini_calls, resets, turns, seed, pre>>

(* Lines 148-170. *)
ManualCheck(t) ==
  /\ pc[t] = "cb_manual"
  /\ IF ManualCheckAborts(req[t].body, req[t].signature)
       THEN /\ resp' = [resp EXCEPT ![t] = 400]
            /\ pc' = [pc EXCEPT ![t] = "cb_done"]
       ELSE /\ pc' = [pc EXCEPT ![t] = "cb_sdk"]
            /\ UNCHANGED resp
  /\ UNCHANGED <<today, user_sessions, nextToken, req, idx, sdk_called, loc,
                 replies, gemini_calls, resets, turns, seed, pre>>

(* Lines 173-186: handler.handle validates the signature, then parses the  *)
(* body and dispatches its events one after another.  The exception of a   *)
(* failed validation is answered 400 if the clause of line 176 catches it  *)
(* (line 182), and 500 by the clause of line 183 otherwise (line 186).     *)
SdkHandle(t) ==
  /\ pc[t] = "cb_sdk"
  /\ sdk_called' = [sdk_called EXCEPT ![t] = TRUE]
  /\ LET raised == SdkRaises(req[t].body, req[t].signature)
     IN IF raised = "none"
          THEN /\ pc' = [pc EXCEPT ![t] = "cb_dispatch"]
               /\ idx' = [idx EXCEPT ![t] = 1]
               /\ UNCHANGED resp
          ELSE /\ resp' = [resp EXCEPT ![t] =
                             IF CaughtByExceptInvalidSignatureError(raised)
                               THEN 400 ELSE 500]
               /\ pc' = [pc EXCEPT ![t] = "cb_done"]
               /\ UNCHANGED idx
  /\ UNCHANGED <<today, user_sessions, nextToken, req, loc,
                 replies, gemini_calls, resets, turns, seed, pre>>

(* The SDK's loop over the events of the body: call handle_message for the *)
(* next event, or return to callback when none is left; callback then      *)
(* answers 'OK' (lines 174-175, 188-189).                                  *)
Dispatch(t) ==
  /\ pc[t] = "cb_dispatch"
  /\ IF idx[t] <= Len(req[t].body)
       THEN /\ loc' = [loc EXCEPT ![t] = [IdleLoc EXCEPT !.event = req[t].body[idx[t]]]]
            /\ pc' = [pc EXCEPT ![t] = "h_date"]
            /\ UNCHANGED resp
       ELSE /\ pc' = [pc EXCEPT ![t] = "cb_done"]
            /\ resp' = [resp EXCEPT ![t] = 200]
            /\ UNCHANGED loc
  /\ UNCHANGED <<today, user_sessions, nextToken, req, idx, sdk_called,
                 replies, gemini_calls, resets, turns, seed, pre>>

(* The response has been sent and the thread that served the request ends. *)
Close(t) ==
  /\ pc[t] = "cb_done"
  /\ pc' = [pc EXCEPT ![t] = "closed"]
  /\ req' = [req EXCEPT ![t] = NoRequest]
  /\ idx' = [idx EXCEPT ![t] = 0]
  /\ resp' = [resp EXCEPT ![t] = 0]
  /\ sdk_called' = [sdk_called EXCEPT ![t] = FALSE]
  /\ loc' = [loc EXCEPT ![t] = IdleLoc]
  /\ pre' = [pre EXCEPT ![t] = <<>>]
  /\ UNCHANGED <<today, user_sessions, nextToken, replies, gemini_calls,
                 resets, turns, seed>>

(***************************************************************************)
(* handle_message                                                          *)
(***************************************************************************)
Goto(t, label) == pc' = [pc EXCEPT ![t] = label]

(* Lines 193-201: the default response text is set and the wall clock is   *)
(* read.                                                                   *)
HDate(t) ==
  /\ pc[t] = "h_date"
  /\ loc' = [loc EXCEPT ![t].current_date = today,
                        ![t].response_text = DEFAULT_RESPONSE_TEXT]
  /\ Goto(t, "h_check")
  /\ UNCHANGED <<today, user_sessions, nextToken, req, idx, resp, sdk_called,
                 replies, gemini_calls, resets, turns, seed>>

(* The session the handler finds when it starts, if any. *)
Found(t) ==
  IF User(t) \in DOMAIN user_sessions THEN <<user_sessions[User(t)]>> ELSE <<>>

(* Line 204. *)
HCheck(t) ==
  /\ pc[t] = "h_check"
  /\ IF NeedsReset(user_sessions, User(t), loc[t].current_date)
       THEN Goto(t, "h_init")
       ELSE Goto(t, "h_quota")
  /\ UNCHANGED <<today, user_sessions, nextToken, req, idx, resp, sdk_called, loc,
                 replies, gemini_calls, resets, turns, seed, pre>>

(* Lines 207-214: a new dict replaces the user's session.  A thread that   *)
(* is in the middle of `request_count += 1` holds the replaced dict and    *)
(* will store into it, not into the new one.                               *)
HInit(t) ==
  /\ pc[t] = "h_init"
  /\ user_sessions' = Store(user_sessions, User(t), NewSession(loc[t].current_date))
  /\ loc' = [o \in Threads |->
               IF o = t THEN [loc[o] EXCEPT !.response_text = INITIAL_MESSAGE]
               ELSE IF pc[o] = "h_count_write" /\ User(o) = User(t)
                      THEN [loc[o] EXCEPT !.attached = FALSE]
               ELSE loc[o]]
  /\ resets' = IF User(t) \in DOMAIN user_sessions
                 THEN [resets EXCEPT ![User(t)] = @ \cup {loc[t].current_date}]
                 ELSE resets
  /\ turns' = [turns EXCEPT ![User(t)] = 0]
  /\ Goto(t, "h_reply_initial")
  /\ UNCHANGED <<today, nextToken, req, idx, resp, sdk_called,
                 replies, gemini_calls, seed, pre>>

(* One reply_message call with the event's token, then handle_message      *)
(* returns (lines 215-227, 233-245, 298-312).  An exception that left      *)
(* handle_message would leave handler.handle too and be answered 500       *)
(* (lines 183-186).                                                        *)
SendReply(t) ==
  /\ replies' = ReplyMessage(replies, loc[t].event.reply_token, loc[t].response_text)
  /\ \E ok \in BOOLEAN :
       /\ loc' = [loc EXCEPT ![t].reply_ok = ok]
       /\ IF ok \/ ReplyErrorCaught(ReplyRaises(ok))
            THEN /\ Goto(t, "cb_dispatch")
                 /\ idx' = [idx EXCEPT ![t] = @ + 1]
                 /\ UNCHANGED resp
            ELSE /\ Goto(t, "cb_done")
                 /\ resp' = [resp EXCEPT ![t] = 500]
                 /\ UNCHANGED idx
  /\ UNCHANGED <<today, user_sessions, nextToken, req, sdk_called,
                 gemini_calls, resets, turns, seed, pre>>

HReplyInitial(t) == pc[t] = "h_reply_initial" /\ SendReply(t)

(* Lines 230-231. *)
HQuota(t) ==
  /\ pc[t] = "h_quota"
  /\ IF QuotaExceeded(user_sessions[User(t)])
       THEN /\ loc' = [loc EXCEPT ![t].response_text = GEMINI_LIMIT_MESSAGE]
            /\ Goto(t, "h_reply_limit")
       ELSE /\ Goto(t, "h_start_index")
            /\ UNCHANGED loc
  /\ UNCHANGED <<today, user_sessions, nextToken, req, idx, resp, sdk_called,
                 replies, gemini_calls, resets, turns, seed, pre>>

HReplyLimit(t) == pc[t] = "h_reply_limit" /\ SendReply(t)

(* Line 251. *)
HStartIndex(t) ==
  /\ pc[t] = "h_start_index"
  /\ loc' = [loc EXCEPT ![t].start_index = StartIndex(user_sessions[User(t)].history)]
  /\ Goto(t, "h_context")
  /\ UNCHANGED <<today, user_sessions, nextToken, req, idx, resp, sdk_called,
                 replies, gemini_calls, resets, turns, seed, pre>>

(* Lines 248-256. *)
HContext(t) ==
  /\ pc[t] = "h_context"
  /\ loc' = [loc EXCEPT ![t].chat_history =
               ChatHistory(user_sessions[User(t)].history, loc[t].start_index),
                        ![t].start_index = 0]
  /\ Goto(t, "h_gemini")
  /\ UNCHANGED <<today, user_sessions, nextToken, req, idx, resp, sdk_called,
                 replies, gemini_calls, resets, turns, seed, pre>>

(* Lines 260-276 and 294-296: start_chat(history).send_message(message).   *)
(* The service returns a response or the call raises.                      *)
HGemini(t) ==
  /\ pc[t] = "h_gemini"
  /\ \E kind \in GeminiKinds :
       LET response == [kind |-> kind,
                        text |-> IF kind \in {"text", "list"}
                                   THEN Answer(loc[t].event.text) ELSE NoText]
       IN /\ gemini_calls' =
               [gemini_calls EXCEPT ![loc[t].event.reply_token] =
                  Append(@, [user |-> User(t), raised |-> (kind = "raise"),
                             no_text |-> (kind = "none")])]
          /\ IF ~TurnRecorded(kind)
               THEN /\ loc' = [loc EXCEPT ![t].response_text = GEMINI_ERROR_TEXT,
                                          ![t].chat_history = <<>>]
                    /\ Goto(t, "h_reply")
                    /\ UNCHANGED turns
               ELSE /\ loc' = [loc EXCEPT ![t].response_text = ResponseText(response),
                                          ![t].chat_history = <<>>]
                    /\ Goto(t, "h_append_user")
                    /\ turns' = [turns EXCEPT ![User(t)] = @ + 1]
  /\ UNCHANGED <<today, user_sessions, nextToken, req, idx, resp, sdk_called,
                 replies, resets, seed, pre>>

(* Line 279. *)
HAppendUser(t) ==
  /\ pc[t] = "h_append_user"
  /\ user_sessions' = [user_sessions EXCEPT ![User(t)] = AppendUser(@, loc[t].event.text)]
  /\ Goto(t, "h_append_model")
  /\ UNCHANGED <<today, nextToken, req, idx, resp, sdk_called, loc,
                 replies, gemini_calls, resets, turns, seed, pre>>

(* Line 280. *)
HAppendModel(t) ==
  /\ pc[t] = "h_append_model"
  /\ user_sessions' = [user_sessions EXCEPT ![User(t)] = AppendModel(@, loc[t].response_text)]
  /\ Goto(t, "h_count_read")
  /\ UNCHANGED <<today, nextToken, req, idx, resp, sdk_called, loc,
                 replies, gemini_calls, resets, turns, seed, pre>>

(* Line 283, `request_count += 1`: the session dict and its counter are    *)
(* loaded ...                                                              *)
HCountRead(t) ==
  /\ pc[t] = "h_count_read"
  /\ loc' = [loc EXCEPT ![t].count_read = user_sessions[User(t)].request_count,
                        ![t].attached = TRUE]
  /\ Goto(t, "h_count_write")
  /\ UNCHANGED <<today, user_sessions, nextToken, req, idx, resp, sdk_called,
                 replies, gemini_calls, resets, turns, seed, pre>>

(* ... and the sum is stored into the dict that was loaded.                *)
Increment(count) == count + 1

HCountWrite(t) ==
  /\ pc[t] = "h_count_write"
  /\ IF loc[t].attached
       THEN user_sessions' = [user_sessions EXCEPT
                                ![User(t)].request_count = Increment(loc[t].count_read)]
       ELSE UNCHANGED user_sessions
  /\ loc' = [loc EXCEPT ![t].count_read = 0, ![t].attached = TRUE]
  /\ Goto(t, "h_date_write")
  /\ UNCHANGED <<today, nextToken, req, idx, resp, sdk_called,
                 replies, gemini_calls, resets, turns, seed, pre>>

(* Line 284. *)
HDateWrite(t) ==
  /\ pc[t] = "h_date_write"
  /\ user_sessions' = [user_sessions EXCEPT
                         ![User(t)].last_request_date = loc[t].current_date]
  /\ Goto(t, "h_reply")
  /\ UNCHANGED <<today, nextToken, req, idx, resp, sdk_called, loc,
                 replies, gemini_calls, resets, turns, seed, pre>>

(* Lines 298-312. *)
HReply(t) == pc[t] = "h_reply" /\ SendReply(t)

(* Midnight passes. *)
Tick ==
  /\ today < MaxDay
  /\ today' = today + 1
  /\ UNCHANGED <<user_sessions, nextToken, pc, req, idx, resp, sdk_called, loc,
                 replies, gemini_calls, resets, turns, seed, pre>>

Step(t) ==
  \/ CheckHeader(t) \/ ManualCheck(t) \/ SdkHandle(t) \/ Dispatch(t) \/ Close(t)
  \/ HCheck(t) \/ HInit(t) \/ HReplyInitial(t)
  \/ HQuota(t) \/ HReplyLimit(t) \/ HStartIndex(t) \/ HContext(t) \/ HGemini(t)
  \/ HAppendUser(t) \/ HAppendModel(t) \/ HCountRead(t) \/ HCountWrite(t)
  \/ HDateWrite(t) \/ HReply(t)

(* Requests are served concurrently, each by a thread of its own.  The     *)
(* requests of this specification are the platform's: correctly signed.    *)
ReceiveSigned(t) ==
  /\ Receive(t)
  /\ req'[t].signature = CalculatedSignature(req'[t].body)

Next ==
  \/ Tick
  \/ \E t \in Threads : ReceiveSigned(t) \/ (HDate(t) /\ UNCHANGED pre) \/ Step(t)

Spec == Init /\ [][Next]_vars

(* Requests are served one after another: a request is accepted only when  *)
(* no other thread is serving one.                                         *)
ReceiveAlone(t) ==
  /\ \A o \in Threads \ {t} : pc[o] \in {"idle", "closed"}
  /\ Receive(t)

HDateAlone(t) ==
  /\ HDate(t)
  /\ pre' = [pre EXCEPT ![t] = Found(t)]

SeqNext ==
  \/ Tick
  \/ \E t \in Threads : ReceiveAlone(t) \/ HDateAlone(t) \/ Step(t)

SeqSpec == Init /\ [][SeqNext]_vars

(* Requests are served one after another, and the run starts after any     *)
(* number of answered messages: the first user has no session or a session *)
(* of 0..MaxSeedTurns turns (or one close to the daily limit), the second  *)
(* user is new.                                                            *)
WinSeeds == (0..MaxSeedTurns) \cup SeedTurns

WinInit ==
  /\ today = 1
  /\ \E D \in SUBSET {"u1"} : \E c \in [D -> WinSeeds] :
       /\ user_sessions = [u \in D |-> SeedSession(c[u])]
       /\ seed = [u \in Users |-> IF u \in D THEN c[u] ELSE 0]
  /\ turns = seed
  /\ nextToken = 1
  /\ pc = [t \in Threads |-> "idle"]
  /\ req = [t \in Threads |-> NoRequest]
  /\ idx = [t \in Threads |-> 0]
  /\ resp = [t \in Threads |-> 0]
  /\ sdk_called = [t \in Threads |-> FALSE]
  /\ loc = [t \in Threads |-> IdleLoc]
  /\ replies = [k \in Tokens |-> <<>>]
  /\ gemini_calls = [k \in Tokens |-> <<>>]
  /\ resets = [u \in Users |-> {}]
  /\ pre = [t \in Threads |-> <<>>]

WinSpec == WinInit /\ [][SeqNext]_vars

(***************************************************************************)
(* Vocabulary of the properties.                                           *)
(***************************************************************************)
Recording == {"h_append_user", "h_append_model", "h_count_read", "h_count_write"}

HandlerPcs ==
  {"h_date", "h_check", "h_init", "h_reply_initial", "h_quota", "h_reply_limit",
   "h_start_index", "h_context", "h_gemini", "h_date_write", "h_reply"} \cup Recording

(* handle_message has read the clock for its event and has not yet been    *)
(* replaced by the next event of the body.                                 *)
Started(t) == loc[t].event # NoEvent /\ pc[t] # "h_date"

(* handle_message has returned for the event in loc[t]. *)
Finished(t) == loc[t].event # NoEvent /\ pc[t] \in {"cb_dispatch", "cb_done"}

Token(t) == loc[t].event.reply_token

FoundSession(t) == pre[t][1]

(* No handler is between its Gemini call and the end of its bookkeeping. *)
NoneRecording == \A t \in Threads : pc[t] \notin Recording

(* No thread is inside handle_message. *)
Quiet == \A t \in Threads : pc[t] \notin HandlerPcs

(* The Gemini calls made for a user in this run; those that returned. *)
Calls(u) ==
  Cardinality({k \in Tokens : gemini_calls[k] # <<>> /\ gemini_calls[k][1].user = u})

Returned(u) ==
  Cardinality({k \in Tokens : /\ gemini_calls[k] # <<>>
                              /\ gemini_calls[k][1].user = u
                              /\ ~gemini_calls[k][1].raised})

(***************************************************************************)
(* C1. Quota exhaustion (requests served one after another): an event of   *)
(* a user whose session is dated today and has request_count equal to      *)
(* MAX_GEMINI_REQUESTS_PER_DAY gets exactly the reply GEMINI_LIMIT_MESSAGE, *)
(* no Gemini call is made for it, and the session (request_count, history) *)
(* stays as it was found.                                                  *)
(***************************************************************************)
C1_Exhausted(t) ==
  /\ Started(t)
  /\ pre[t] # <<>>
  /\ FoundSession(t).last_request_date = loc[t].current_date
  /\ FoundSession(t).request_count = MAX_GEMINI_REQUESTS_PER_DAY

C1_QuotaExhaustion ==
  \A t \in Threads :
    C1_Exhausted(t) =>
      /\ gemini_calls[Token(t)] = <<>>
      /\ user_sessions[User(t)] = FoundSession(t)
      /\ pc[t] \notin {"h_init", "h_reply_initial", "h_start_index", "h_context",
                       "h_gemini", "h_date_write", "h_reply"} \cup Recording
      /\ IF Finished(t) THEN replies[Token(t)] = <<GEMINI_LIMIT_MESSAGE>>
                        ELSE replies[Token(t)] = <<>>

C1_Witness ==
  \E t \in Threads :
    /\ C1_Exhausted(t) /\ Finished(t)
    /\ replies[Token(t)] = <<GEMINI_LIMIT_MESSAGE>>
    /\ user_sessions[User(t)].request_count = MAX_GEMINI_REQUESTS_PER_DAY

(***************************************************************************)
(* C2. First contact (requests served one after another): the first event  *)
(* of a user with no entry in user_sessions gets exactly the reply         *)
(* INITIAL_MESSAGE, its message is not sent to Gemini, and the session it  *)
(* leaves has request_count 0 and an empty history.                        *)
(***************************************************************************)
C2_NewUser(t) == Started(t) /\ pre[t] = <<>>

C2_FirstContact ==
  \A t \in Threads :
    C2_NewUser(t) =>
      /\ gemini_calls[Token(t)] = <<>>
      /\ pc[t] \in {"h_check", "h_init", "h_reply_initial", "cb_dispatch", "cb_done"}
      /\ Finished(t) =>
           /\ replies[Token(t)] = <<INITIAL_MESSAGE>>
           /\ User(t) \in DOMAIN user_sessions
           /\ user_sessions[User(t)].request_count = 0
           /\ user_sessions[User(t)].history = <<>>

C2_Witness ==
  \E t \in Threads :
    /\ C2_NewUser(t) /\ Finished(t)
    /\ replies[Token(t)] = <<INITIAL_MESSAGE>>
    /\ user_sessions[User(t)].request_count = 0

(***************************************************************************)
(* C3. Day rollover (requests served one after another): an event handled  *)
(* on a date other than the session's last_request_date resets             *)
(* request_count to 0 and clears the history before anything else is done, *)
(* gets exactly the reply INITIAL_MESSAGE, makes no Gemini call and        *)
(* records nothing.                                                        *)
(***************************************************************************)
C3_Rollover(t) ==
  /\ Started(t)
  /\ pre[t] # <<>>
  /\ FoundSession(t).last_request_date # loc[t].current_date

C3_DayRollover ==
  \A t \in Threads :
    C3_Rollover(t) =>
      /\ gemini_calls[Token(t)] = <<>>
      /\ pc[t] \in {"h_check", "h_init", "h_reply_initial", "cb_dispatch", "cb_done"}
      /\ IF pc[t] \in {"h_check", "h_init"}
           THEN user_sessions[User(t)] = FoundSession(t)
           ELSE user_sessions[User(t)] = NewSession(loc[t].current_date)
      /\ IF Finished(t) THEN replies[Token(t)] = <<INITIAL_MESSAGE>>
                        ELSE replies[Token(t)] = <<>>

C3_Witness ==
  \E t \in Threads :
    /\ C3_Rollover(t) /\ Finished(t)
    /\ FoundSession(t).request_count > 0
    /\ user_sessions[User(t)].request_count = 0
    /\ user_sessions[User(t)].history = <<>>
    /\ replies[Token(t)] = <<INITIAL_MESSAGE>>

(***************************************************************************)
(* C4. Gemini failure (requests served one after another): when the Gemini *)
(* call of an event raises, the reply is exactly GEMINI_ERROR_TEXT and the *)
(* session, history and request_count included, is what it was before the  *)
(* event.                                                                  *)
(***************************************************************************)
C4_Raised(t) ==
  /\ Started(t)
  /\ gemini_calls[Token(t)] # <<>>
  /\ gemini_calls[Token(t)][1].raised

C4_FailureLeavesSession ==
  \A t \in Threads :
    C4_Raised(t) =>
      /\ pre[t] # <<>>
      /\ user_sessions[User(t)] = FoundSession(t)
      /\ loc[t].response_text = GEMINI_ERROR_TEXT
      /\ IF Finished(t) THEN replies[Token(t)] = <<GEMINI_ERROR_TEXT>>
                        ELSE replies[Token(t)] = <<>> /\ pc[t] = "h_reply"

C4_Witness ==
  \E t \in Threads :
    /\ C4_Raised(t) /\ Finished(t)
    /\ FoundSession(t).request_count > seed[User(t)]
    /\ user_sessions[User(t)].request_count = FoundSession(t).request_count
    /\ Len(user_sessions[User(t)].history) = Len(FoundSession(t).history)

(***************************************************************************)
(* C5. Turn accounting (requests served one after another): whenever no    *)
(* handler is in the middle of recording a turn, a session that has seen N *)
(* answered messages since it was (re)initialised has request_count = N    *)
(* and a history of exactly 2N entries: nothing is dropped from the stored *)
(* history, also when N exceeds MAX_CONTEXT_TURNS.                         *)
(***************************************************************************)
C5_TurnAccounting ==
  NoneRecording =>
    \A u \in DOMAIN user_sessions :
      /\ user_sessions[u].request_count = turns[u]
      /\ Len(user_sessions[u].history) = 2 * turns[u]

C5_Witness ==
  /\ NoneRecording
  /\ \E u \in DOMAIN user_sessions :
       /\ turns[u] > seed[u]
       /\ turns[u] > MAX_CONTEXT_TURNS
       /\ turns[u] < MAX_GEMINI_REQUESTS_PER_DAY
       /\ user_sessions[u].request_count = turns[u]
       /\ Len(user_sessions[u].history) = 2 * turns[u]

(***************************************************************************)
(* C6. Fail-closed signature check (requests served one after another):    *)
(* while a request whose X-Line-Signature header is absent or differs from *)
(* base64(HMAC-SHA256(secret, body)) is being served, callback never       *)
(* enters handle_message, no session is created or changed, no reply and   *)
(* no Gemini call is made, and the request is answered 400.                *)
(***************************************************************************)
C6_Invalid(t) ==
  /\ pc[t] \notin {"idle", "closed"}
  /\ \/ req[t].signature = NoHeader
     \/ req[t].signature # B64Encode(HmacSha256(CHANNEL_SECRET, req[t].body))

C6_FailClosed ==
  [][\A t \in Threads :
       C6_Invalid(t) =>
         /\ user_sessions' = user_sessions
         /\ replies' = replies
         /\ gemini_calls' = gemini_calls
         /\ pc'[t] \in {"cb_header", "cb_manual", "cb_sdk", "cb_done", "closed"}
         /\ loc'[t] = IdleLoc
         /\ pc'[t] = "cb_done" => resp'[t] = 400]_vars

(***************************************************************************)
(* C7. One reply attempt per event (concurrent requests): no reply token   *)
(* is ever used for more than one reply_message call; an event whose       *)
(* handler has returned, on whichever path, has had exactly one call, made *)
(* with the handler's response text, also when that call failed; an event  *)
(* still being handled has had none.                                       *)
(***************************************************************************)
C7_OneReplyPerEvent ==
  /\ \A k \in Tokens : Len(replies[k]) <= 1
  /\ \A t \in Threads :
       /\ Finished(t) => replies[Token(t)] = <<loc[t].response_text>>
       /\ (loc[t].event # NoEvent /\ pc[t] \in HandlerPcs) => replies[Token(t)] = <<>>
       /\ \A i \in 1..Len(req[t].body) :
            i < idx[t] => Len(replies[req[t].body[i].reply_token]) = 1

C7_Witness ==
  \E t \in Threads :
    /\ pc[t] = "cb_done"
    /\ loc[t].event # NoEvent
    /\ ~loc[t].reply_ok
    /\ replies[Token(t)] = <<loc[t].response_text>>
    /\ Len(req[t].body) = 2
    /\ replies[req[t].body[1].reply_token] # replies[req[t].body[2].reply_token]

(***************************************************************************)
(* C8. No lost updates under same-user concurrency (concurrent requests,   *)
(* all on the same day): once the handlers have returned, every session's  *)
(* request_count has risen by the number k of events whose Gemini call     *)
(* returned, and its history by 2k entries.                                *)
(***************************************************************************)
C8_NoLostUpdates ==
  (today = 1 /\ Quiet) =>
    \A u \in DOMAIN user_sessions :
      /\ user_sessions[u].request_count = seed[u] + Returned(u)
      /\ Len(user_sessions[u].history) = 2 * seed[u] + 2 * Returned(u)

(***************************************************************************)
(* C9. Quota bounds Gemini calls (all on the same day): once the handlers  *)
(* have returned, request_count equals the number of Gemini calls made for *)
(* the user today, returned or raised, and that number does not exceed     *)
(* MAX_GEMINI_REQUESTS_PER_DAY.                                            *)
(***************************************************************************)
C9_QuotaBoundsCalls ==
  (today = 1 /\ Quiet) =>
    \A u \in DOMAIN user_sessions :
      /\ user_sessions[u].request_count = seed[u] + Calls(u)
      /\ seed[u] + Calls(u) <= MAX_GEMINI_REQUESTS_PER_DAY

(***************************************************************************)
(* C10. request_count never decreases except when the session is reset     *)
(* because a request arrived on a later date than last_request_date, and   *)
(* an existing session is reset at most once for any one date.             *)
(***************************************************************************)
C10_Resetting(t, u) ==
  pc[t] = "h_init" /\ pc'[t] # "h_init" /\ User(t) = u

C10_ResetOncePerDay ==
  [][\A u \in DOMAIN user_sessions :
       /\ user_sessions'[u].request_count < user_sessions[u].request_count =>
            \E t \in Threads :
              /\ C10_Resetting(t, u)
              /\ user_sessions[u].last_request_date < loc[t].current_date
       /\ \A t \in Threads :
            (/\ C10_Resetting(t, u)
             /\ user_sessions[u].last_request_date # loc[t].current_date) =>
              loc[t].current_date \notin resets[u]]_vars

(***************************************************************************)
(* C11. Context window content (requests served one after another, the     *)
(* session holding any number of turns): the context handed to             *)
(* start_chat is the priming pair (the system prompt as "user", the fixed  *)
(* acknowledgment as "model") followed by the last                         *)
(* min(len(history), 2 * MAX_CONTEXT_TURNS) entries of the stored history  *)
(* in their order; the message being answered is neither in the context    *)
(* nor in the history at that time, and it is the message the answer is    *)
(* given to.                                                               *)
(***************************************************************************)
C11_Window(history) ==
  LET n == Len(history)
      m == IF n < 2 * MAX_CONTEXT_TURNS THEN n ELSE 2 * MAX_CONTEXT_TURNS
  IN SubSeq(history, n - m + 1, n)

C11_ContextContent ==
  \A t \in Threads :
    /\ pc[t] = "h_gemini" =>
         LET history == user_sessions[User(t)].history
             context == loc[t].chat_history
         IN /\ context = PrimingPair \o C11_Window(history)
            /\ context[1] = <<"user", COUNSELING_SYSTEM_PROMPT>>
            /\ context[2] = <<"model", PRIMING_ACK>>
            /\ \A i \in 1..Len(context) : context[i][2] # loc[t].event.text
            /\ \A i \in 1..Len(history) : history[i][2] # loc[t].event.text
    /\ pc[t] = "h_append_user" =>
         loc[t].response_text \in {Answer(loc[t].event.text), UNEXPECTED_FORMAT_TEXT}

C11_Witness ==
  \E t \in Threads :
    /\ pc[t] = "h_gemini"
    /\ seed[User(t)] = MAX_CONTEXT_TURNS
    /\ Len(user_sessions[User(t)].history) = 2 * MAX_CONTEXT_TURNS + 2
    /\ Len(loc[t].chat_history) = 2 * MAX_CONTEXT_TURNS + 2
    /\ loc[t].chat_history[3] = <<"user", SeedText(2)>>
    /\ loc[t].chat_history[2 * MAX_CONTEXT_TURNS + 1][1] = "user"
    /\ loc[t].chat_history[2 * MAX_CONTEXT_TURNS + 2] # <<"model", UNEXPECTED_FORMAT_TEXT>>

(***************************************************************************)
(* C12. Context size bound (requests served one after another): whatever   *)
(* the length of the stored history, the context handed to start_chat has  *)
(* at most 2 * MAX_CONTEXT_TURNS + 2 entries, the priming pair and the     *)
(* window.                                                                 *)
(***************************************************************************)
C12_ContextBound ==
  \A t \in Threads :
    Len(loc[t].chat_history) <= 2 * MAX_CONTEXT_TURNS + 2

C12_Witness ==
  \E t \in Threads :
    /\ pc[t] = "h_gemini"
    /\ Len(user_sessions[User(t)].history) > 6 * MAX_CONTEXT_TURNS
    /\ Len(user_sessions[User(t)].history) > 2 * seed[User(t)]
    /\ Len(loc[t].chat_history) = 2 * MAX_CONTEXT_TURNS + 2

(***************************************************************************)
(* C13. Sliding window.  The session of the day holds the completed turns  *)
(* of the messages M1, M2, ... and the next message is being handled.      *)
(***************************************************************************)
C13_Handling(t, n) ==
  /\ pc[t] = "h_gemini"
  /\ resets[User(t)] = {}
  /\ turns[User(t)] = n
  /\ seed[User(t)] <= n

C13_InContext(t, entry) ==
  \E i \in 1..Len(loc[t].chat_history) : loc[t].chat_history[i] = entry

(* C13 as stated, with a window of 2 turn pairs: when M5 is handled, the   *)
(* context is the priming pair and the turns of M3 and M4; the turns of M1 *)
(* and M2 are not in the context though still in the stored history.       *)
C13_WindowOfTwo ==
  \A t \in Threads :
    C13_Handling(t, 4) =>
      LET history == user_sessions[User(t)].history
      IN /\ Len(history) = 8
         /\ loc[t].chat_history = PrimingPair \o SubSeq(history, 5, 8)
         /\ \A j \in 1..4 : ~C13_InContext(t, history[j])

(* C13 with the window the code has, MAX_CONTEXT_TURNS = 6 turn pairs:     *)
(* when M9 is handled after the turns of M1..M8 were recorded on the same  *)
(* day, the context is the priming pair and the turns of M3..M8 in order;  *)
(* the turns of M1 and M2 are not in the context though still the first    *)
(* entries of the stored history; M9 is not in the context.                *)
C13_SlidingWindow ==
  \A t \in Threads :
    C13_Handling(t, MAX_CONTEXT_TURNS + 2) =>
      LET history == user_sessions[User(t)].history
          n == 2 * (MAX_CONTEXT_TURNS + 2)
      IN /\ Len(history) = n
         /\ loc[t].chat_history = PrimingPair \o SubSeq(history, 5, n)
         /\ \A j \in 1..4 : ~C13_InContext(t, history[j])
         /\ SubSeq(history, 1, 2 * seed[User(t)]) = SeedHistory(seed[User(t)])
         /\ \A i \in 1..(MAX_CONTEXT_TURNS + 2) :
              /\ history[2 * i - 1][1] = "user"
              /\ history[2 * i][1] = "model"
         /\ ~C13_InContext(t, <<"user", loc[t].event.text>>)

C13_Witness ==
  \E t \in Threads :
    /\ C13_Handling(t, MAX_CONTEXT_TURNS + 2)
    /\ seed[User(t)] = MAX_CONTEXT_TURNS
    /\ user_sessions[User(t)].history[1] = <<"user", SeedText(1)>>
    /\ user_sessions[User(t)].history[3] = <<"user", SeedText(2)>>
    /\ loc[t].chat_history[3] = <<"user", SeedText(3)>>
    /\ loc[t].chat_history[2 * MAX_CONTEXT_TURNS + 1] = <<"user", MessageText(2)>>
    /\ loc[t].event.text = MessageText(3)

(***************************************************************************)
(* C14. A Gemini response without extractable text (requests served one    *)
(* after another) is handled like a call that raised: the reply is         *)
(* GEMINI_ERROR_TEXT and the session, history and request_count included,  *)
(* stays as the handler found it.                                          *)
(***************************************************************************)
C14_NoText(t) ==
  /\ Started(t)
  /\ gemini_calls[Token(t)] # <<>>
  /\ gemini_calls[Token(t)][1].no_text

C14_NoTextIsFailure ==
  \A t \in Threads :
    C14_NoText(t) =>
      /\ pre[t] # <<>>
      /\ user_sessions[User(t)] = FoundSession(t)
      /\ loc[t].response_text = GEMINI_ERROR_TEXT
      /\ Finished(t) => replies[Token(t)] = <<GEMINI_ERROR_TEXT>>

(***************************************************************************)
(* C15. Per-event failure isolation (concurrent requests): a request with  *)
(* a valid signature is never answered 400 or 500, whatever Gemini calls   *)
(* raise and whatever reply_message calls fail; when callback answers, it  *)
(* answers 200 and every event of the body has been handled to its reply   *)
(* attempt.                                                                *)
(***************************************************************************)
C15_Valid(t) ==
  /\ pc[t] \notin {"idle", "closed"}
  /\ req[t].signature = B64Encode(HmacSha256(CHANNEL_SECRET, req[t].body))

C15_FailureIsolation ==
  \A t \in Threads :
    C15_Valid(t) =>
      /\ resp[t] \in {0, 200}
      /\ pc[t] = "cb_done" =>
           /\ resp[t] = 200
           /\ \A i \in 1..Len(req[t].body) :
                Len(replies[req[t].body[i].reply_token]) = 1

C15_Witness ==
  \E t \in Threads :
    /\ C15_Valid(t)
    /\ pc[t] = "cb_done"
    /\ resp[t] = 200
    /\ Len(req[t].body) = 2
    /\ \A i \in 1..2 :
         /\ gemini_calls[req[t].body[i].reply_token] # <<>>
         /\ gemini_calls[req[t].body[i].reply_token][1].raised
         /\ replies[req[t].body[i].reply_token] = <<GEMINI_ERROR_TEXT>>
    /\ ~loc[t].reply_ok

(***************************************************************************)
(* C16. Cross-user isolation (concurrent requests): a step of              *)
(* handle_message for user u leaves the entry of every other user as it    *)
(* is, present or absent, with its history, request_count and              *)
(* last_request_date, and does not touch the handlers of other users;      *)
(* user_sessions holds at most one session per user identifier.            *)
(***************************************************************************)
C16_CrossUserIsolation ==
  [][\A t \in Threads :
       (pc[t] \in HandlerPcs /\ pc'[t] # pc[t]) =>
         /\ \A v \in Users \ {User(t)} :
              /\ (v \in DOMAIN user_sessions') = (v \in DOMAIN user_sessions)
              /\ v \in DOMAIN user_sessions => user_sessions'[v] = user_sessions[v]
         /\ \A o \in Threads \ {t} :
              (loc[o].event # NoEvent /\ User(o) # User(t)) => loc'[o] = loc[o]
         /\ DOMAIN user_sessions' \subseteq Users]_vars

C16_Witness ==
  \E t \in Threads : \E o \in Threads \ {t} :
    /\ pc[t] = "h_append_model"
    /\ pc[o] \in Recording
    /\ User(o) # User(t)
    /\ seed[User(t)] = 0
    /\ Len(user_sessions[User(t)].history) = 1
    /\ seed[User(o)] > 0
    /\ user_sessions[User(o)].request_count = seed[User(o)]

(***************************************************************************)
(* C17. Manual signature mismatch (requests served one after another):     *)
(* while a request whose X-Line-Signature header is present and differs    *)
(* from the signature callback computes itself is being served,            *)
(* handler.handle is not invoked: the request ends with 400 at the manual  *)
(* check.                                                                  *)
(***************************************************************************)
C17_Mismatch(t) ==
  /\ pc[t] \notin {"idle", "closed"}
  /\ req[t].signature # NoHeader
  /\ req[t].signature # B64Encode(HmacSha256(CHANNEL_SECRET, req[t].body))

C17_ManualMismatchEnds ==
  \A t \in Threads :
    C17_Mismatch(t) =>
      /\ ~sdk_called[t]
      /\ pc[t] \in {"cb_header", "cb_manual", "cb_done"}
      /\ pc[t] = "cb_done" => resp[t] = 400

(***************************************************************************)
(* C18. Counter bound (concurrent requests): in every reachable state      *)
(* every session has 0 <= request_count <= MAX_GEMINI_REQUESTS_PER_DAY.    *)
(***************************************************************************)
C18_CounterBound ==
  \A u \in DOMAIN user_sessions :
    /\ 0 <= user_sessions[u].request_count
    /\ user_sessions[u].request_count <= MAX_GEMINI_REQUESTS_PER_DAY

(***************************************************************************)
(* C19. History well-formedness (concurrent requests): whenever no handler *)
(* is between its Gemini call and the end of its bookkeeping, every stored *)
(* history has even length and alternates "user", "model", each "model"    *)
(* entry being the response to the "user" entry right before it.           *)
(***************************************************************************)
C19_Reply(entry, user_entry) ==
  /\ entry[1] = "model"
  /\ entry[2] \in {Answer(user_entry[2]), UNEXPECTED_FORMAT_TEXT}

C19_WellFormed(history) ==
  /\ Len(history) % 2 = 0
  /\ \A i \in 1..Len(history) :
       IF i % 2 = 1 THEN history[i][1] = "user"
                    ELSE C19_Reply(history[i], history[i - 1])

C19_HistoryWellFormed ==
  NoneRecording =>
    \A u \in DOMAIN user_sessions : C19_WellFormed(user_sessions[u].history)

(***************************************************************************)
(* C20. last_request_date never moves backwards (concurrent requests): no  *)
(* step sets the last_request_date of an existing session to an earlier    *)
(* date.                                                                   *)
(***************************************************************************)
C20_DateMonotone ==
  [][\A u \in DOMAIN user_sessions :
       user_sessions'[u].last_request_date >= user_sessions[u].last_request_date]_vars
====
